---- MODULE Spec2Model ----
(***************************************************************************)
(* Pong on Bevy (src/src/main.rs): the per-frame simulation.               *)
(*                                                                         *)
(* Numbers.  Every f32 of the program is kept as a fixed-point integer     *)
(* with one fractional bit: the value v is stored as 2v (f32(1) = 2).      *)
(* Window sizes are whole pixels, so every `x / 2.` of the source is exact *)
(* and every position the program can reach is representable.              *)
(*                                                                         *)
(* Scheduling.  The Update systems are run once per frame in any order     *)
(* that respects the `.after` constraints declared in main(); `ran` is the *)
(* set of systems that already ran in the current frame.                   *)
(* project_positions, update_scoreboard and the Startup spawners of        *)
(* camera/scoreboard only touch rendering state and are left out.          *)
(***************************************************************************)
EXTENDS Integers, Sequences, FiniteSets, TLC

\* ---------------------------------------------------------------- constants
BALL_SIZE == 5
PADDLE_SPEED == 1
PADDLE_WIDTH == 10
PADDLE_HEIGHT == 50
GUTTER_HEIGHT == 20
\* `let padding = 50.;` in spawn_paddles
padding == 50

\* ------------------------------------------------------------------- bounds
\* Frames explored (the program itself runs until the window is closed).
MaxFrames == 5

\* --------------------------------------------------------------- f32 / Vec2
f32(n) == 2 * n
\* product of two f32
Mul(a, b) == (a * b) \div 2
\* `x / 2.`
Half(a) == a \div 2
Abs(a) == IF a < 0 THEN -a ELSE a
\* f32::signum: 1.0 for a positive number and for +0.0, -1.0 for a negative
\* one.  The differences the program takes are never -0.0 (x - x = +0.0).
Signum(a) == IF a >= 0 THEN f32(1) ELSE f32(-1)
Min(a, b) == IF a < b THEN a ELSE b
Max(a, b) == IF a > b THEN a ELSE b

Vec2(x, y) == [x |-> x, y |-> y]
VAdd(u, v) == Vec2(u.x + v.x, u.y + v.y)
VSub(u, v) == Vec2(u.x - v.x, u.y - v.y)
VScale(u, s) == Vec2(Mul(u.x, s), Mul(u.y, s))
VHalf(u) == Vec2(Half(u.x), Half(u.y))

\* ------------------------------------------------------------------ windows
\* The window sizes the environment may give the program, at startup and on
\* a resize between two frames (whole pixels).  The ball moves one pixel per
\* frame, so the sizes are small ones that bring every case within MaxFrames
\* frames: spawned in the 124 wide window the paddles sit at x = -12 and 12
\* and the ball touches one in the second frame; in the 3 wide window the
\* ball is out of the field at |x| = 2; max_y is 5 for height 100 and 1 for
\* height 92.
Windows ==
    { [width |-> f32(124), height |-> f32(100)],
      [width |-> f32(3),   height |-> f32(92)] }

\* ButtonInput<KeyCode>: the pressed state of ArrowUp and ArrowDown
KeyStates == [up : BOOLEAN, down : BOOLEAN]

\* -------------------------------------------------------------------- state
VARIABLES
    ball,            \* the Ball entity: position, velocity, shape
    player,          \* the Player paddle: position, velocity, shape
    ai,              \* the Ai paddle: position, velocity, shape
    gutters,         \* the two Gutter entities: position, shape
    window,          \* the primary window's resolution in this frame
    keyboard_input,  \* the key state handle_player_input last read
    score,           \* Score resource
    events,          \* Events<Scored>
    readers,         \* last_event_count of the two EventReader<Scored>
    ran,             \* Update systems that already ran in this frame
    frame,           \* number of the current frame
    frame_start,     \* ball and paddles as they were when this frame began
    geom,            \* inputs and result of one collide_with_side call
    collided         \* the boxes the ball hit in handle_collisions, in the
                     \* previous frame (prev) and in this one (now)

vars == << ball, player, ai, gutters, window, keyboard_input, score, events,
           readers, ran, frame, frame_start, geom, collided >>

\* ----------------------------------------------------------------- bundles
BallBundle(x, y) ==
    [ shape    |-> Vec2(f32(BALL_SIZE), f32(BALL_SIZE)),
      velocity |-> Vec2(x, y),
      position |-> Vec2(f32(0), f32(0)) ]

PaddleBundle(x, y) ==
    [ shape    |-> Vec2(f32(PADDLE_WIDTH), f32(PADDLE_HEIGHT)),
      position |-> Vec2(x, y),
      velocity |-> Vec2(f32(0), f32(0)) ]

GutterBundle(x, y, width) ==
    [ shape    |-> Vec2(width, f32(GUTTER_HEIGHT)),
      position |-> Vec2(x, y) ]

\* spawn_ball
SpawnBall == BallBundle(f32(1), f32(1))

\* spawn_paddles
right_paddle_x(w) == Half(w.width) - f32(padding)
left_paddle_x(w) == Half(-w.width) + f32(padding)
SpawnPlayer(w) == PaddleBundle(right_paddle_x(w), f32(0))
SpawnAi(w) == PaddleBundle(left_paddle_x(w), f32(0))

\* spawn_gutters
top_gutter_y(w) == Half(w.height) - Half(f32(GUTTER_HEIGHT))
bottom_gutter_y(w) == Half(-w.height) + Half(f32(GUTTER_HEIGHT))
SpawnGutters(w) ==
    [ top    |-> GutterBundle(f32(0), top_gutter_y(w), w.width),
      bottom |-> GutterBundle(f32(0), bottom_gutter_y(w), w.width) ]

\* ------------------------------------------------------------------ events
\* Events<Scored>: two buffers, each with the id of its first event, and the
\* number of events ever sent.
NoEvents ==
    [ events_a |-> << >>, a_start |-> 0,
      events_b |-> << >>, b_start |-> 0,
      event_count |-> 0 ]

\* EventWriter::send
Send(ev, scorer) ==
    [ ev EXCEPT !.events_b = Append(@, scorer),
                !.event_count = @ + 1 ]

\* Events::update, run once at the start of every frame: the older buffer is
\* dropped, the newer one becomes the older one.
EventsUpdate(ev) ==
    [ events_a |-> ev.events_b, a_start |-> ev.b_start,
      events_b |-> << >>,       b_start |-> ev.event_count,
      event_count |-> ev.event_count ]

Drop(s, n) == IF n >= Len(s) THEN << >> ELSE SubSeq(s, n + 1, Len(s))
SatSub(a, b) == IF a > b THEN a - b ELSE 0

\* EventReader::read: the events not yet seen by the reader whose
\* last_event_count is `last`, oldest first.
Unread(ev, last) ==
    Drop(ev.events_a, SatSub(last, ev.a_start))
        \o Drop(ev.events_b, SatSub(last, ev.b_start))

\* ---------------------------------------------------------------- schedule
Systems ==
    { "move_ball", "handle_player_input", "detect_scoring", "move_ai",
      "reset_ball", "update_score", "handle_collisions", "move_paddles" }

\* the constraints of main() without `handle_collisions.after(move_ball)`
After_CollisionsUnordered ==
    { <<"reset_ball", "detect_scoring">>,
      <<"update_score", "detect_scoring">>,
      <<"move_paddles", "handle_player_input">> }

\* the constraints of main() without `reset_ball.after(detect_scoring)`
After_ResetUnordered ==
    { <<"update_score", "detect_scoring">>,
      <<"handle_collisions", "move_ball">>,
      <<"move_paddles", "handle_player_input">> }

\* <<s, t>>: s was added with `.after(t)`
After ==
    { <<"reset_ball", "detect_scoring">>,
      <<"update_score", "detect_scoring">>,
      <<"handle_collisions", "move_ball">>,
      <<"move_paddles", "handle_player_input">> }

\* s may run now: it has not run in this frame and everything it is ordered
\* after has.
Runnable(s) ==
    /\ s \notin ran
    /\ \A c \in After : c[1] = s => c[2] \in ran

Snapshot == [ball |-> ball, player |-> player, ai |-> ai, score |-> score]

NoGeom == [center |-> Vec2(0, 0), radius |-> 0, box_center |-> Vec2(0, 0),
           half_size |-> Vec2(0, 0), side |-> "unset"]

InitWith(windows) ==
    /\ window \in windows
    /\ ball = SpawnBall
    /\ player = SpawnPlayer(window)
    /\ ai = SpawnAi(window)
    /\ gutters = SpawnGutters(window)
    /\ keyboard_input = [up |-> FALSE, down |-> FALSE]
    /\ score = [player |-> 0, ai |-> 0]
    /\ events = NoEvents
    /\ readers = [reset_ball |-> 0, update_score |-> 0]
    /\ ran = {}
    /\ frame = 1
    /\ frame_start = Snapshot
    /\ collided = [prev |-> {}, now |-> {}]

\* the game as spawned in one of the windows of Windows
InitGame == InitWith(Windows)

Init == InitGame /\ geom = NoGeom

\* ----------------------------------------------------------------- geometry
\* Aabb2d::new(center, half_size)
Aabb2d(center, half_size) ==
    [min |-> VSub(center, half_size), max |-> VAdd(center, half_size)]

\* Aabb2d::closest_point: the point clamped to the box
ClosestPoint(box, p) ==
    Vec2(Max(box.min.x, Min(p.x, box.max.x)),
         Max(box.min.y, Min(p.y, box.max.y)))

DistanceSquared(p, q) ==
    (p.x - q.x) * (p.x - q.x) + (p.y - q.y) * (p.y - q.y)

\* BoundingCircle::intersects(&Aabb2d)
Intersects(center, radius, box) ==
    DistanceSquared(center, ClosestPoint(box, center)) <= radius * radius

\* collide_with_side resolving a tie horizontally
collide_with_side_TieHorizontal(center, radius, wall) ==
    IF ~Intersects(center, radius, wall) THEN "None"
    ELSE LET offset == VSub(center, ClosestPoint(wall, center))
         IN  IF Abs(offset.x) >= Abs(offset.y)
             THEN (IF offset.x < 0 THEN "Left" ELSE "Right")
             ELSE (IF offset.y > 0 THEN "Top" ELSE "Bottom")

\* collide_with_side: "None", or the side of `wall` the ball hit
collide_with_side(center, radius, wall) ==
    IF ~Intersects(center, radius, wall) THEN "None"
    ELSE LET offset == VSub(center, ClosestPoint(wall, center))
         IN  IF Abs(offset.x) > Abs(offset.y)
             THEN (IF offset.x < 0 THEN "Left" ELSE "Right")
             ELSE (IF offset.y > 0 THEN "Top" ELSE "Bottom")

\* the match in handle_collisions: the velocity after one hit
Reflect(velocity, collision) ==
    CASE collision \in {"Left", "Right"} ->
            [velocity EXCEPT !.x = Mul(@, f32(-1))]
      [] collision \in {"Top", "Bottom"} ->
            [velocity EXCEPT !.y = Mul(@, f32(-1))]
      [] OTHER -> velocity

\* Query<(&Position, &Shape), Without<Ball>>: the paddles and the gutters
OtherThings == << player, ai, gutters.top, gutters.bottom >>

RECURSIVE CollideAll_StopsAtFirstHit(_, _, _)
\* handle_collisions leaving its loop after the first box that was hit
CollideAll_StopsAtFirstHit(velocity, things, i) ==
    IF i > Len(things) THEN velocity
    ELSE LET collision ==
                 collide_with_side(ball.position, ball.shape.x,
                     Aabb2d(things[i].position, VHalf(things[i].shape)))
         IN  IF collision # "None" THEN Reflect(velocity, collision)
             ELSE CollideAll_StopsAtFirstHit(velocity, things, i + 1)

RECURSIVE CollideAll(_, _, _)
\* the for loop of handle_collisions over things[i..], starting at `velocity`
CollideAll(velocity, things, i) ==
    IF i > Len(things) THEN velocity
    ELSE LET collision ==
                 collide_with_side(ball.position, ball.shape.x,
                     Aabb2d(things[i].position, VHalf(things[i].shape)))
         IN  CollideAll(Reflect(velocity, collision), things, i + 1)

\* the boxes (indices of OtherThings) the ball intersects, i.e. the ones for
\* which collide_with_side returns Some
Hits ==
    { i \in DOMAIN OtherThings :
        collide_with_side(ball.position, ball.shape.x,
            Aabb2d(OtherThings[i].position, VHalf(OtherThings[i].shape)))
          # "None" }

\* ------------------------------------------------------------------ systems
Ran(s) == ran' = ran \cup {s}

move_ball ==
    /\ Runnable("move_ball")
    /\ ball' = [ball EXCEPT !.position = VAdd(@, ball.velocity)]
    /\ Ran("move_ball")
    /\ UNCHANGED << player, ai, gutters, window, keyboard_input, score,
                    events, readers, frame, frame_start, geom, collided >>

\* handle_player_input testing ArrowDown first
KeyVelocity_DownFirst(keys) ==
    IF keys.down THEN f32(-1)
    ELSE IF keys.up THEN f32(1)
    ELSE f32(0)

\* the if / else if / else of handle_player_input
KeyVelocity(keys) ==
    IF keys.up THEN f32(1)
    ELSE IF keys.down THEN f32(-1)
    ELSE f32(0)

handle_player_input ==
    /\ Runnable("handle_player_input")
    /\ \E keys \in KeyStates :
          /\ keyboard_input' = keys
          /\ player' = [player EXCEPT !.velocity.y = KeyVelocity(keys)]
    /\ Ran("handle_player_input")
    /\ UNCHANGED << ball, ai, gutters, window, score, events, readers,
                    frame, frame_start, geom, collided >>

move_ai ==
    /\ Runnable("move_ai")
    /\ LET a_to_b == VSub(ball.position, ai.position)
       IN  ai' = [ai EXCEPT !.velocity.y = Signum(a_to_b.y)]
    /\ Ran("move_ai")
    /\ UNCHANGED << ball, player, gutters, window, keyboard_input, score,
                    events, readers, frame, frame_start, geom, collided >>

max_y(w) == Half(w.height) - f32(GUTTER_HEIGHT) - Half(f32(PADDLE_HEIGHT))

\* move_paddles accepting a candidate on the bound itself
MovePaddle_Inclusive(paddle, w) ==
    LET new_position ==
            VAdd(paddle.position, VScale(paddle.velocity, f32(PADDLE_SPEED)))
    IN  IF Abs(new_position.y) <= max_y(w)
        THEN [paddle EXCEPT !.position = new_position]
        ELSE paddle

\* the body of the for loop of move_paddles, for one paddle
MovePaddle(paddle, w) ==
    LET new_position ==
            VAdd(paddle.position, VScale(paddle.velocity, f32(PADDLE_SPEED)))
    IN  IF Abs(new_position.y) < max_y(w)
        THEN [paddle EXCEPT !.position = new_position]
        ELSE paddle

move_paddles ==
    /\ Runnable("move_paddles")
    /\ player' = MovePaddle(player, window)
    /\ ai' = MovePaddle(ai, window)
    /\ Ran("move_paddles")
    /\ UNCHANGED << ball, gutters, window, keyboard_input, score, events,
                    readers, frame, frame_start, geom, collided >>

handle_collisions ==
    /\ Runnable("handle_collisions")
    /\ ball' = [ball EXCEPT !.velocity = CollideAll(@, OtherThings, 1)]
    /\ collided' = [collided EXCEPT !.now = Hits]
    /\ Ran("handle_collisions")
    /\ UNCHANGED << player, ai, gutters, window, keyboard_input, score,
                    events, readers, frame, frame_start, geom >>

\* detect_scoring crediting the wrong side
Detect_Swapped(position, w) ==
    IF position.x > Half(w.width) THEN "Player"
    ELSE IF position.x < Half(-w.width) THEN "Ai"
    ELSE "None"

\* the test of detect_scoring: who scored, or "None"
Detect(position, w) ==
    IF position.x > Half(w.width) THEN "Ai"
    ELSE IF position.x < Half(-w.width) THEN "Player"
    ELSE "None"

detect_scoring ==
    /\ Runnable("detect_scoring")
    /\ LET scorer == Detect(ball.position, window)
       IN  events' = IF scorer = "None" THEN events ELSE Send(events, scorer)
    /\ Ran("detect_scoring")
    /\ UNCHANGED << ball, player, ai, gutters, window, keyboard_input, score,
                    readers, frame, frame_start, geom, collided >>

\* reset_ball launching the ball horizontally
ResetOne_Horizontal(b, scorer) ==
    IF scorer = "Ai"
    THEN [b EXCEPT !.position = Vec2(f32(0), f32(0)),
                   !.velocity = Vec2(f32(-1), f32(0))]
    ELSE [b EXCEPT !.position = Vec2(f32(0), f32(0)),
                   !.velocity = Vec2(f32(1), f32(0))]

\* reset_ball with the two launch directions exchanged
ResetOne_Swapped(b, scorer) ==
    IF scorer = "Ai"
    THEN [b EXCEPT !.position = Vec2(f32(0), f32(0)),
                   !.velocity = Vec2(f32(1), f32(1))]
    ELSE [b EXCEPT !.position = Vec2(f32(0), f32(0)),
                   !.velocity = Vec2(f32(-1), f32(1))]

\* reset_ball that puts the ball back without relaunching it
ResetOne_KeepsVelocity(b, scorer) ==
    [b EXCEPT !.position = Vec2(f32(0), f32(0))]

\* the match of reset_ball: the ball after one Scored event
ResetOne(b, scorer) ==
    IF scorer = "Ai"
    THEN [b EXCEPT !.position = Vec2(f32(0), f32(0)),
                   !.velocity = Vec2(f32(-1), f32(1))]
    ELSE [b EXCEPT !.position = Vec2(f32(0), f32(0)),
                   !.velocity = Vec2(f32(1), f32(1))]

RECURSIVE ResetAll(_, _, _)
ResetAll(b, evs, i) ==
    IF i > Len(evs) THEN b ELSE ResetAll(ResetOne(b, evs[i]), evs, i + 1)

\* reset_ball querying every Position instead of the Ball's alone: a Scored
\* event also puts the gutters at (0,0)
reset_ball_EveryPosition ==
    /\ Runnable("reset_ball")
    /\ ball' = ResetAll(ball, Unread(events, readers.reset_ball), 1)
    /\ gutters' =
          IF Unread(events, readers.reset_ball) = << >> THEN gutters
          ELSE [gutters EXCEPT !.top.position = Vec2(f32(0), f32(0)),
                               !.bottom.position = Vec2(f32(0), f32(0))]
    /\ readers' = [readers EXCEPT !.reset_ball = events.event_count]
    /\ Ran("reset_ball")
    /\ UNCHANGED << player, ai, window, keyboard_input, score,
                    events, frame, frame_start, geom, collided >>

reset_ball ==
    /\ Runnable("reset_ball")
    /\ ball' = ResetAll(ball, Unread(events, readers.reset_ball), 1)
    /\ readers' = [readers EXCEPT !.reset_ball = events.event_count]
    /\ Ran("reset_ball")
    /\ UNCHANGED << player, ai, gutters, window, keyboard_input, score,
                    events, frame, frame_start, geom, collided >>

\* update_score crediting every event to the Ai
TallyOne_AlwaysAi(s, scorer) == [s EXCEPT !.ai = @ + 1]

\* the match of update_score: the score after one Scored event
TallyOne(s, scorer) ==
    IF scorer = "Ai"
    THEN [s EXCEPT !.ai = @ + 1]
    ELSE [s EXCEPT !.player = @ + 1]

RECURSIVE TallyAll(_, _, _)
TallyAll(s, evs, i) ==
    IF i > Len(evs) THEN s ELSE TallyAll(TallyOne(s, evs[i]), evs, i + 1)

update_score ==
    /\ Runnable("update_score")
    /\ score' = TallyAll(score, Unread(events, readers.update_score), 1)
    /\ readers' = [readers EXCEPT !.update_score = events.event_count]
    /\ Ran("update_score")
    /\ UNCHANGED << ball, player, ai, gutters, window, keyboard_input,
                    events, frame, frame_start, geom, collided >>

\* The end of one frame and the start of the next (App::run): every Update
\* system has run; the window may have been resized; Events::update runs.
BeginFrame ==
    /\ ran = Systems
    /\ frame < MaxFrames
    /\ frame' = frame + 1
    /\ ran' = {}
    /\ window' \in Windows
    /\ events' = EventsUpdate(events)
    /\ frame_start' = Snapshot
    /\ collided' = [prev |-> collided.now, now |-> {}]
    /\ UNCHANGED << ball, player, ai, gutters, keyboard_input, score,
                    readers, geom >>

Next ==
    \/ move_ball
    \/ handle_player_input
    \/ detect_scoring
    \/ move_ai
    \/ reset_ball
    \/ update_score
    \/ handle_collisions
    \/ move_paddles
    \/ BeginFrame

Spec == Init /\ [][Next]_vars

\* ------------------------------------------------- a game in a narrow window
\* Startup windows so narrow that the paddles (50 from either edge) stand
\* next to the ball: 120 wide, the ball spawns touching both paddles; 100
\* wide, both paddles are spawned at x = 0, on top of each other and of the
\* ball.
NarrowWindows ==
    { [width |-> f32(120), height |-> f32(100)],
      [width |-> f32(100), height |-> f32(100)] }

InitNarrow == InitWith(NarrowWindows) /\ geom = NoGeom

SpecNarrow == InitNarrow /\ [][Next]_vars

\* ------------------------------------------ a game whose window is not resized
\* the end of a frame and the start of the next without a resize
BeginFrameFixed ==
    /\ ran = Systems
    /\ frame < MaxFrames
    /\ frame' = frame + 1
    /\ ran' = {}
    /\ events' = EventsUpdate(events)
    /\ frame_start' = Snapshot
    /\ collided' = [prev |-> collided.now, now |-> {}]
    /\ UNCHANGED << ball, player, ai, gutters, window, keyboard_input, score,
                    readers, geom >>

NextFixed ==
    \/ move_ball
    \/ handle_player_input
    \/ detect_scoring
    \/ move_ai
    \/ reset_ball
    \/ update_score
    \/ handle_collisions
    \/ move_paddles
    \/ BeginFrameFixed

SpecFixed == Init /\ [][NextFixed]_vars

\* ------------------------------------------------- collide_with_side alone
\* How far (in half pixels) a circle centre is taken outside the box.
MaxReach == 13

\* Boxes: a paddle and a short gutter, centred at the origin or off it.
GeomBoxes ==
    { [box_center |-> c, half_size |-> VHalf(sh)] :
        c \in { Vec2(f32(0), f32(0)), Vec2(f32(3) + 1, f32(-2)) },
        sh \in { Vec2(f32(PADDLE_WIDTH), f32(PADDLE_HEIGHT)),
                 Vec2(f32(4), f32(GUTTER_HEIGHT)) } }

\* Every call of collide_with_side with the ball's radius, one of the boxes
\* and a centre within MaxReach of the box.
GeomInputs ==
    { [center |-> Vec2(b.box_center.x + dx, b.box_center.y + dy),
       radius |-> f32(BALL_SIZE),
       box_center |-> b.box_center, half_size |-> b.half_size,
       side |-> "unset"] :
        b \in GeomBoxes,
        dx \in -(f32(PADDLE_WIDTH) \div 2 + MaxReach)
                   .. (f32(PADDLE_WIDTH) \div 2 + MaxReach),
        dy \in -(f32(PADDLE_HEIGHT) \div 2 + MaxReach)
                   .. (f32(PADDLE_HEIGHT) \div 2 + MaxReach) }

InitGeom == InitGame /\ geom \in GeomInputs

\* one call of collide_with_side
collide ==
    /\ geom.side = "unset"
    /\ geom' = [geom EXCEPT !.side =
                   collide_with_side(geom.center, geom.radius,
                       Aabb2d(geom.box_center, geom.half_size))]
    /\ UNCHANGED << ball, player, ai, gutters, window, keyboard_input, score,
                    events, readers, ran, frame, frame_start, collided >>

NextGeom == collide

SpecGeom == InitGeom /\ [][NextGeom]_vars

\* =================================================================== claims
\* the step taken is the run of system s
Step(s) == s \notin ran /\ s \in ran'

EndOfFrame == ran = Systems

\* the events detect_scoring sent in the current frame
SentThisFrame == events.events_b

Count(seq, v) == Cardinality({i \in DOMAIN seq : seq[i] = v})

Sign(a) == IF a > 0 THEN 1 ELSE IF a < 0 THEN -1 ELSE 0

\* the window width the entities were spawned with
SpawnWidth == gutters.top.shape.x

\* C1: in every frame and every admissible schedule, move_ball has already
\* run when detect_scoring runs.
C1_MoveBallBeforeDetectScoring ==
    [][Step("detect_scoring") => "move_ball" \in ran]_vars

\* C2: reset_ball and update_score never run before detect_scoring in a
\* frame, each of them reads exactly the events detect_scoring sent in that
\* frame, and at the end of the frame neither reader has an event left.
C2_ScoredConsumedInFrame ==
    /\ [][ /\ Step("reset_ball") =>
                /\ "detect_scoring" \in ran
                /\ Unread(events, readers.reset_ball) = SentThisFrame
           /\ Step("update_score") =>
                /\ "detect_scoring" \in ran
                /\ Unread(events, readers.update_score) = SentThisFrame
         ]_vars
    /\ [](EndOfFrame =>
            /\ Unread(events, readers.reset_ball) = << >>
            /\ Unread(events, readers.update_score) = << >>)

\* C2 witness: a frame ends in which detect_scoring sent an event and both
\* readers have consumed it.
C2_Witness ==
    /\ EndOfFrame
    /\ SentThisFrame # << >>
    /\ readers.reset_ball = events.event_count
    /\ readers.update_score = events.event_count

\* C3: at the end of every frame player + ai is the number of Scored events
\* sent so far; update_score adds 1 to ai per Scored(Ai) and 1 to player per
\* Scored(Player) of the frame, and no other step changes a counter.
C3_ScoreTally ==
    /\ [](EndOfFrame => score.player + score.ai = events.event_count)
    /\ [][ /\ Step("update_score") =>
                /\ score'.ai = score.ai + Count(SentThisFrame, "Ai")
                /\ score'.player = score.player + Count(SentThisFrame, "Player")
           /\ ~Step("update_score") => score' = score
         ]_vars

\* C3 witness: a frame ends with both sides having scored.
C3_Witness ==
    /\ EndOfFrame
    /\ score.ai >= 1
    /\ score.player >= 1
    /\ score.player + score.ai = events.event_count

\* C4: detect_scoring sends Scored(Ai) if ball.x > width/2, Scored(Player)
\* if ball.x < -width/2 and nothing in between; reset_ball then leaves the
\* ball at exactly (0,0) with velocity (-1,1) after Scored(Ai) and (1,1)
\* after Scored(Player), and leaves the ball unchanged when nothing was sent.
C4_ScoringLaunch ==
    [][ /\ Step("detect_scoring") =>
             events'.events_b = events.events_b \o
                 (IF 2 * ball.position.x > window.width THEN << "Ai" >>
                  ELSE IF 2 * ball.position.x < -window.width
                       THEN << "Player" >>
                  ELSE << >>)
        /\ Step("reset_ball") =>
             IF SentThisFrame = << >> THEN ball' = ball
             ELSE /\ ball'.position = Vec2(f32(0), f32(0))
                  /\ ball'.velocity =
                        IF SentThisFrame[Len(SentThisFrame)] = "Ai"
                        THEN Vec2(f32(-1), f32(1))
                        ELSE Vec2(f32(1), f32(1))
                  /\ ball'.shape = ball.shape
      ]_vars

\* C4 witness: the ball was beyond the right edge when detect_scoring ran and
\* reset_ball has put it at (0,0) with velocity (-1,1).
C4_Witness ==
    /\ {"detect_scoring", "reset_ball"} \subseteq ran
    /\ SentThisFrame = << "Ai" >>
    /\ ball.position = Vec2(f32(0), f32(0))
    /\ ball.velocity = Vec2(f32(-1), f32(1))

\* C5 as claimed: after a score the ball is launched towards the paddle of
\* the side that did not score (the Player paddle when the Ai scored).
C5_LaunchTowardsLoser ==
    [][Step("reset_ball") /\ SentThisFrame # << >> =>
          LET scorer == SentThisFrame[Len(SentThisFrame)]
              loser == IF scorer = "Ai" THEN player ELSE ai
          IN  Sign(ball'.velocity.x) = Sign(loser.position.x)
      ]_vars

\* C5 amended: with the paddles spawned in a window wider than 100, after a
\* score the ball is launched towards the paddle of the side that DID score:
\* x-velocity -1, towards the Ai paddle on the left, when the Ai scored, and
\* +1, towards the Player paddle on the right, when the Player scored.
C5_LaunchTowardsScorer ==
    [][Step("reset_ball") /\ SentThisFrame # << >> /\ SpawnWidth > f32(100) =>
          LET scorer == SentThisFrame[Len(SentThisFrame)]
              winner == IF scorer = "Ai" THEN ai ELSE player
          IN  /\ Sign(ball'.velocity.x) = Sign(winner.position.x)
              /\ ball'.velocity.x = IF scorer = "Ai" THEN f32(-1) ELSE f32(1)
      ]_vars

\* C5 witness: in a game spawned in a window wider than 100 the Player has
\* scored and the ball has been relaunched to the right.
C5_Witness ==
    /\ SpawnWidth > f32(100)
    /\ "reset_ball" \in ran
    /\ SentThisFrame = << "Player" >>
    /\ player.position.x > 0
    /\ ball.position = Vec2(f32(0), f32(0))
    /\ ball.velocity.x = f32(1)

\* C6: at the end of every frame each paddle's y lies within [-max_y, max_y]
\* for the max_y of that frame's window height.
C6_PaddleWithinBounds ==
    EndOfFrame =>
        \A paddle \in {player, ai} :
            /\ -max_y(window) <= paddle.position.y
            /\ paddle.position.y <= max_y(window)

\* C7: move_paddles moves each paddle to position + velocity * PADDLE_SPEED
\* if and only if |candidate.y| < max_y, and otherwise leaves its position
\* exactly as it was; it changes nothing else of a paddle.
C7_PaddleMoveOrReject ==
    [][Step("move_paddles") =>
          \A who \in {"player", "ai"} :
              LET old == IF who = "player" THEN player ELSE ai
                  new == IF who = "player" THEN player' ELSE ai'
                  candidate == Vec2(old.position.x + old.velocity.x * PADDLE_SPEED,
                                    old.position.y + old.velocity.y * PADDLE_SPEED)
                  limit == window.height - f32(2 * GUTTER_HEIGHT)
                               - f32(PADDLE_HEIGHT)
              IN  /\ new.position =
                        IF 2 * Abs(candidate.y) < limit THEN candidate
                        ELSE old.position
                  /\ new.velocity = old.velocity
                  /\ new.shape = old.shape
      ]_vars

\* C7 witness: the Player paddle began the frame at y = max_y - 1, was given
\* velocity.y = 1, move_paddles ran and the paddle is still at y = max_y - 1.
C7_Witness ==
    /\ {"handle_player_input", "move_paddles"} \subseteq ran
    /\ frame_start.player.position.y = max_y(window) - f32(1)
    /\ player.velocity.y = f32(1)
    /\ player.position = frame_start.player.position

\* C8: after move_ai the Ai paddle's velocity.y is 1 when ball.y > ai.y, -1
\* when ball.y < ai.y and 0 when ball.y = ai.y.
C8_AiVelocityIsSign ==
    [][Step("move_ai") =>
          ai'.velocity.y = f32(Sign(ball.position.y - ai.position.y))]_vars

\* C9 as claimed: after handle_player_input the Player paddle's velocity.y is
\* +1 if only up is pressed, -1 if only down is pressed, 0 if neither or both.
C9_BothKeysCancel ==
    [][Step("handle_player_input") =>
          player'.velocity.y =
              IF keyboard_input'.up /\ ~keyboard_input'.down THEN f32(1)
              ELSE IF keyboard_input'.down /\ ~keyboard_input'.up THEN f32(-1)
              ELSE f32(0)
      ]_vars

\* C9 amended: after handle_player_input the Player paddle's velocity.y is +1
\* if up is pressed (whether or not down is pressed too), -1 if only down is
\* pressed and 0 if neither is pressed, whatever the previous velocity.y was;
\* nothing else of the paddle changes.
C9_UpWins ==
    [][Step("handle_player_input") =>
          /\ player'.velocity.y =
                IF keyboard_input'.up THEN f32(1)
                ELSE IF keyboard_input'.down THEN f32(-1)
                ELSE f32(0)
          /\ player'.velocity.x = player.velocity.x
          /\ player'.position = player.position
      ]_vars

\* C9 witness: the paddle was moving down, both keys are pressed, and
\* handle_player_input has set velocity.y to +1.
C9_Witness ==
    /\ "handle_player_input" \in ran
    /\ frame_start.player.velocity.y = f32(-1)
    /\ keyboard_input = [up |-> TRUE, down |-> TRUE]
    /\ player.velocity.y = f32(1)

\* C10: collide_with_side returns None for a circle that does not intersect
\* the box; otherwise, with offset = centre - closest point of the box, Left
\* if |offset.x| > |offset.y| and offset.x < 0, Right if |offset.x| >
\* |offset.y| and offset.x >= 0, Top if |offset.x| <= |offset.y| and
\* offset.y > 0, and Bottom otherwise (so a tie is never Left or Right).
C10_SideOfCollision ==
    geom.side # "unset" =>
        LET lo == VSub(geom.box_center, geom.half_size)
            hi == VAdd(geom.box_center, geom.half_size)
            cx == IF geom.center.x < lo.x THEN lo.x
                  ELSE IF geom.center.x > hi.x THEN hi.x ELSE geom.center.x
            cy == IF geom.center.y < lo.y THEN lo.y
                  ELSE IF geom.center.y > hi.y THEN hi.y ELSE geom.center.y
            ox == geom.center.x - cx
            oy == geom.center.y - cy
        IN  IF ox * ox + oy * oy > geom.radius * geom.radius
            THEN geom.side = "None"
            ELSE /\ geom.side = "Left" <=> (Abs(ox) > Abs(oy) /\ ox < 0)
                 /\ geom.side = "Right" <=> (Abs(ox) > Abs(oy) /\ ox >= 0)
                 /\ geom.side = "Top" <=> (Abs(ox) <= Abs(oy) /\ oy > 0)
                 /\ geom.side = "Bottom" <=> (Abs(ox) <= Abs(oy) /\ oy <= 0)
                 /\ (Abs(ox) = Abs(oy) => geom.side \in {"Top", "Bottom"})

\* C10 witness: a circle that overlaps the box's upper right corner exactly
\* on the diagonal has been resolved to Top.
C10_Witness ==
    /\ geom.side = "Top"
    /\ geom.center.x > geom.box_center.x + geom.half_size.x
    /\ geom.center.x - (geom.box_center.x + geom.half_size.x)
           = geom.center.y - (geom.box_center.y + geom.half_size.y)

\* the side collide_with_side gives for the ball, as it is now, and the i-th
\* of the other things
SideOf(i) ==
    collide_with_side(ball.position, ball.shape.x,
        Aabb2d(OtherThings[i].position, VHalf(OtherThings[i].shape)))

HorizontalHits == {i \in DOMAIN OtherThings : SideOf(i) \in {"Left", "Right"}}
VerticalHits == {i \in DOMAIN OtherThings : SideOf(i) \in {"Top", "Bottom"}}

\* v after n negations
Negated(v, n) == IF n % 2 = 0 THEN v ELSE -v

\* C11: one run of handle_collisions negates velocity.x once per box hit on
\* Left or Right and velocity.y once per box hit on Top or Bottom, with no
\* deduplication (two horizontal hits leave velocity.x as it was), and
\* changes nothing else of the ball.
C11_ReflectionPerHit ==
    [][Step("handle_collisions") =>
          /\ ball'.velocity.x =
                Negated(ball.velocity.x, Cardinality(HorizontalHits))
          /\ ball'.velocity.y =
                Negated(ball.velocity.y, Cardinality(VerticalHits))
          /\ ball'.position = ball.position
          /\ ball'.shape = ball.shape
      ]_vars

\* C11 witness: handle_collisions has run with the ball on a horizontal side
\* of exactly two boxes, and velocity.x is what it was when the frame began.
C11_Witness ==
    /\ "handle_collisions" \in ran
    /\ "reset_ball" \notin ran
    /\ Cardinality(HorizontalHits) = 2
    /\ VerticalHits = {}
    /\ collided.now = HorizontalHits
    /\ ball.velocity.x = frame_start.ball.velocity.x

\* C12: in every frame and every admissible schedule, move_ball has already
\* run when handle_collisions runs.
C12_MoveBallBeforeCollisions ==
    [][Step("handle_collisions") => "move_ball" \in ran]_vars

\* C12 witness: handle_collisions found a hit at the position move_ball had
\* given the ball in the same frame.
C12_Witness ==
    /\ {"move_ball", "handle_collisions"} \subseteq ran
    /\ "reset_ball" \notin ran
    /\ collided.now # {}
    /\ ball.position = VAdd(frame_start.ball.position, frame_start.ball.velocity)

C14_GuttersStatic ==
    [][gutters' = gutters]_vars

\* C14 witness: a frame ends in which the ball hit a box and the Ai scored,
\* with the Player paddle moved, and the gutters are where spawn_gutters put
\* them.
C14_Witness ==
    /\ EndOfFrame
    /\ collided.now # {}
    /\ SentThisFrame # << >>
    /\ player.position.y # f32(0)
    /\ gutters.top.position.x = f32(0)
    /\ gutters.top.position.y > f32(0)
    /\ gutters.bottom.position = Vec2(f32(0), -gutters.top.position.y)

\* C15: in every frame and every admissible schedule, handle_player_input
\* and move_ai have both run when move_paddles runs.
C15_InputsBeforeMovePaddles ==
    [][Step("move_paddles") =>
          {"handle_player_input", "move_ai"} \subseteq ran]_vars

\* C16: a box the ball was reflected off in one frame is not intersected by
\* the ball when handle_collisions runs in the next frame.
C16_NoHitInConsecutiveFrames ==
    "handle_collisions" \in ran => collided.now \cap collided.prev = {}

RECURSIVE OrderedCollide(_, _, _, _)
\* the reflections of ball b with velocity v off things[i..]
OrderedCollide(b, v, things, i) ==
    IF i > Len(things) THEN v
    ELSE OrderedCollide(b,
             Reflect(v, collide_with_side(b.position, b.shape.x,
                            Aabb2d(things[i].position, VHalf(things[i].shape)))),
             things, i + 1)

\* The frame that starts in state s with the keys and the window given, run
\* in the order input adapters, movement, collisions, scoring detection,
\* scoring reaction and tally (an order the constraints of main() admit).
OrderedFrame(s, keys, w) ==
    LET player1 == MovePaddle(
                       [s.player EXCEPT !.velocity.y = KeyVelocity(keys)], w)
        ai1 == MovePaddle(
                   [s.ai EXCEPT !.velocity.y =
                       Signum(s.ball.position.y - s.ai.position.y)], w)
        ball1 == [s.ball EXCEPT !.position = VAdd(@, s.ball.velocity)]
        ball2 == [ball1 EXCEPT !.velocity =
                     OrderedCollide(ball1, @,
                         << player1, ai1, gutters.top, gutters.bottom >>, 1)]
        scorer == Detect(ball2.position, w)
    IN  [ ball   |-> IF scorer = "None" THEN ball2 ELSE ResetOne(ball2, scorer),
          player |-> player1,
          ai     |-> ai1,
          score  |-> IF scorer = "None" THEN s.score
                     ELSE TallyOne(s.score, scorer) ]

\* C17: the state at the end of a frame is the same for every admissible
\* order of the systems, i.e. it is the one the order input, movement,
\* collisions, detection, reaction gives from the state at the start of the
\* frame, the keys and the window.
C17_EndOfFrameIsOrderIndependent ==
    EndOfFrame => Snapshot = OrderedFrame(frame_start, keyboard_input, window)

\* C18: the ball's velocity is always one of (1,1), (1,-1), (-1,1), (-1,-1).
C18_UnitDiagonalVelocity ==
    /\ ball.velocity.x \in {f32(1), f32(-1)}
    /\ ball.velocity.y \in {f32(1), f32(-1)}

\* C18 witness: a collision, not a reset, has turned the ball to the left.
C18_Witness ==
    /\ "handle_collisions" \in ran
    /\ collided.now # {}
    /\ events.event_count = 0
    /\ ball.velocity = Vec2(f32(-1), f32(1))

\* C19: with a field width greater than 2 that does not change,
\* detect_scoring never sends a Scored event in two consecutive frames.
C19_NoScoreInConsecutiveFrames ==
    window.width > f32(2) =>
        ~(events.events_a # << >> /\ events.events_b # << >>)

====
